---- MODULE Spec2Model ----
(***************************************************************************)
(* A model of the arXiv scraper's download pipeline                        *)
(* (arxiv_scraper/core/scraping.py), its dedup ledger                      *)
(* (arxiv_scraper/core/storage.py) and the scrape command that drives them *)
(* (arxiv_scraper/cli/main.py).                                            *)
(*                                                                         *)
(* asyncio runs one coroutine at a time and switches only at an await, so  *)
(* every action below is the code between two suspension points.           *)
(***************************************************************************)
EXTENDS Integers, Sequences, FiniteSets, TLC

\* ------------------------------------------------------------------ bounds

\* Longest feed response (entries) the remote API returns in the model.
MaxFeed == 2
\* Largest target count (--total) of a run.
MaxTarget == 2
\* Largest size of either counting gate (--max-concurrent, API_MAX_CONNECTIONS).
MaxGate == 2

\* stop_after_attempt(3) on fetch_articles_from_category.
FetchAttempts == 3

\* Normalized arXiv identifiers, categories and download formats of the model.
Ids == {"a", "b"}
CategoryLists == {<<"c1", "c2">>}
FormatLists == {<<"source">>, <<"pdf">>, <<"source", "pdf">>}

None == "None"

\* A cache file that does not exist, a cache file holding `value`, and the
\* value a file holds.
NoFile == <<>>
File(value) == <<value>>
Stored(entry) == entry[1]

Min(x, y) == IF x <= y THEN x ELSE y

Range(s) == {s[i] : i \in DOMAIN s}

\* All sequences over S of length at most n.
SeqsUpTo(S, n) == UNION {[1..k -> S] : k \in 0..n}

\* ------------------------------------------------------------------- state

VARIABLES
    logFile,            \* the on-disk JSONL log: a sequence of lines
    downloaded_ids,     \* StorageManager.downloaded_ids (shared with the scraper)
    download_results,   \* StorageManager.download_results
    lock,               \* StorageManager._lock: the set of its holders
    calls,              \* the coroutines calling the StorageManager
    new_storage,        \* a second StorageManager on the same log
    log0,               \* the log before the calls, read only by the properties
    session,            \* the ScrapingSession of the run
    cfg,                \* config and command-line values of the run
    pc,                 \* position of the main coroutine (_scrape / scrape_articles)
    catIdx,             \* index of `category` in the for loop over categories
    downloaded_count,   \* scrape_articles' local downloaded_count
    articles_needed,    \* scrape_articles' local articles_needed
    attempt,            \* tenacity's attempt number of the current fetch
    tasks,              \* download_tasks handed to asyncio.gather
    download_semaphore, \* free slots of download_semaphore
    rate_limiter,       \* free slots of ArxivScraper.rate_limiter
    fetched_ids,        \* ArxivScraper.fetched_ids
    cache,              \* the response cache: key -> NoFile or File(stored list)
    run,                \* history of the run, read only by the properties
    cache_age,          \* age in days of each cache file (now - st_mtime)
    fetch,              \* a feed client method called directly, and its position
    batches,            \* what the direct calls returned, in order
    cli,                \* the scrape command around scrape_articles
    article,            \* an ArxivArticle under construction
    clock,              \* datetime.now(), as an index into Times
    finished,           \* end_time after each finish() call, in order
    disk                \* the files beside the log: whether the log exists, the backups

vars == <<logFile, downloaded_ids, download_results, lock, calls, new_storage,
          log0, session, cfg, pc, catIdx,
          downloaded_count, articles_needed, attempt, tasks,
          download_semaphore, rate_limiter, fetched_ids, cache, run,
          cache_age, fetch, batches, cli, article, clock, finished, disk>>

\* The state of the feed client called directly, of the command and of the
\* model classes, which the pipeline's own steps leave alone.
clientVars == <<cache_age, fetch, batches, cli, article, clock, finished, disk>>

\* No direct call of the feed client is under way.
\* The files beside the log: `live` says whether the log file exists, `given`
\* is the backup file handed to restore_from_backup and `auto` the file
\* written by backup_database, NoFile or File(lines).
NoDisk == [live |-> TRUE, given |-> NoFile, auto |-> NoFile]

NoFetch ==
    [op |-> None, arg |-> None, pc |-> "idle", attempt |-> 0, requests |-> 0,
     acquired |-> FALSE, stored |-> <<>>, age |-> 0]

\* The scrape command before its try block. `saved` is the session file after
\* each save_session that wrote it; `cause` is how the run ended abnormally.
NewCli ==
    [pc |-> "idle", export_metadata |-> FALSE, export_bibtex |-> FALSE,
     quiet |-> FALSE, articles |-> FALSE, returned |-> FALSE,
     finish_calls |-> 0, saved |-> <<>>, cause |-> None, handled |-> FALSE,
     exited |-> FALSE, exit_code |-> 0]

\* No ArxivArticle has been constructed. Strings are sequences of characters.
NoArticle ==
    [input |-> <<>>, built |-> FALSE, accepted |-> FALSE, arxiv_id |-> <<>>,
     rebuilt |-> FALSE, again_accepted |-> FALSE, again_id |-> <<>>]

\* ------------------------------------------------------- the on-disk log

\* One line of the JSONL log. `json` is what json.loads makes of the stripped
\* line: an "object" (a dict, whose keys are `keys` and whose values are in
\* `data`), another JSON "value" (a number, a string, a list, null), "invalid"
\* (JSONDecodeError) or "blank" (the stripped line is empty). `raw` is the
\* stripped text of the line.
NoData == [arxiv_id |-> None, success |-> FALSE, file_format |-> None]

\* DownloadResult.model_dump(mode='json') written by json.dumps: a JSON object
\* that carries every field of the result.
ModelDump(result) ==
    [raw  |-> "{record}",
     json |-> "object",
     keys |-> {"arxiv_id", "success", "file_format"},
     data |-> [arxiv_id    |-> result.arxiv_id,
               success     |-> result.success,
               file_format |-> result.file_format]]

\* DownloadResult.model_validate(data) accepts a dict that has the two
\* required fields; file_format defaults to SOURCE.
Validates(line) == {"arxiv_id", "success"} \subseteq line.keys

ModelValidate(line) ==
    [arxiv_id    |-> line.data.arxiv_id,
     success     |-> line.data.success,
     file_format |-> IF "file_format" \in line.keys
                     THEN line.data.file_format ELSE "source"]

SuccessOf(id, format) == [arxiv_id |-> id, success |-> TRUE, file_format |-> format]

\* The loop body of load_downloaded_ids for one non-blank line that json.loads
\* accepts as a dict: data.get('arxiv_id', line), and the result when the dict
\* has a 'success' key and validates.
LoadObject(line, ids, results) ==
    LET arxiv_id == IF "arxiv_id" \in line.keys
                    THEN line.data.arxiv_id ELSE line.raw
    IN  [ids     |-> ids \cup {arxiv_id},
         results |-> IF "success" \in line.keys /\ Validates(line)
                     THEN Append(results, ModelValidate(line))
                     ELSE results]

\* load_downloaded_ids, lines 50-76: replay the lines in order. A line that is
\* JSON but no dict makes data.get raise AttributeError, which is not a
\* JSONDecodeError: the outer handler logs it and the load ends there.
RECURSIVE Replay(_, _, _)
Replay(lines, ids, results) ==
    IF lines = <<>> THEN [ids |-> ids, results |-> results]
    ELSE LET line == Head(lines) IN
         CASE line.json = "blank"   -> Replay(Tail(lines), ids, results)
           [] line.json = "invalid" -> Replay(Tail(lines), ids \cup {line.raw}, results)
           [] line.json = "value"   -> [ids |-> ids, results |-> results]
           [] OTHER -> LET got == LoadObject(line, ids, results)
                       IN  Replay(Tail(lines), got.ids, got.results)

\* A StorageManager that has not loaded anything yet.
NewStorage == [loaded |-> FALSE, downloaded_ids |-> {}, download_results |-> <<>>]

\* get_stats, lines 126-127 and 139-141.
get_stats(ids, results) ==
    LET successful == Cardinality({n \in DOMAIN results : results[n].success})
    IN  [total_records        |-> Cardinality(ids),
         successful_downloads |-> successful,
         failed_downloads     |-> Len(results) - successful]

\* ----------------------------------------------------------- the session

NewSession ==
    [articles_found |-> 0, articles_downloaded |-> 0, articles_skipped |-> 0,
     errors |-> <<>>, start_time |-> "0", end_time |-> None]

\* Last reading of the clock.
MaxClock == 4

\* datetime.now(): the reading of the clock, later at every reading.
Now == ToString(clock)

TimeIndex(t) == CHOOSE n \in 0..(MaxClock + 1) : ToString(n) = t

\* A finish() that stamps the session at every call.
finish_always(s, now) == [s EXCEPT !.end_time = now]

\* ScrapingSession.finish, lines 348-351.
finish(s, now) == IF s.end_time = None THEN [s EXCEPT !.end_time = now] ELSE s

\* ScrapingSession.duration, lines 325-330, in clock readings: the empty
\* sequence stands for None.
duration(s) ==
    IF s.end_time # None
    THEN <<TimeIndex(s.end_time) - TimeIndex(s.start_time)>>
    ELSE <<>>

\* ScrapingSession.add_error; the timestamp prefix is left out.
add_error(s, kind, about) ==
    [s EXCEPT !.errors = Append(@, [kind |-> kind, about |-> about])]

\* ------------------------------------------------------ download_article

\* The skip check left out.
NeverAlreadyDownloaded(known, id) == FALSE

\* Line 201: `if downloaded_ids and article.arxiv_id in downloaded_ids`.
AlreadyDownloaded(known, id) == known # {} /\ id \in known

\* Lines 210-234: the URL of the requested format.
UrlOutcome(format, link) ==
    IF format \in {"source", "pdf"}
    THEN (IF link THEN "ok" ELSE "nolink")
    ELSE "unsupported"

\* Lines 307-324, the except block: `if self.progress and task_id` reads the
\* local task_id, which is unbound when the exception came before line 244
\* (mkdir, line 238) and is read only when self.progress is set. Once bound it
\* is None: scrape_articles adds its overall task first to a fresh Progress, so
\* self.download_task is TaskID 0, which is false at line 244.
HandlerOutcome(progress, task_id_bound) ==
    IF progress /\ ~task_id_bound THEN "raised" ELSE "failed"

\* Lines 444-449 of _download_with_semaphore: the session after one result.
WrapperSession(s, id, outcome) ==
    CASE outcome = "success" ->
            [s EXCEPT !.articles_downloaded = @ + 1]
      [] outcome = "already" -> s
      [] outcome = "raised"  -> s
      [] OTHER ->
            add_error([s EXCEPT !.articles_skipped = @ + 1], "download", id)

\* A block that is left without giving its slot back.
Leaked(slots) == slots

\* The exit of `async with semaphore` (lines 76, 249 and 436), normal or by an
\* exception: the slot is given back.
Released(slots) == slots + 1

\* A gate that admits every caller.
SemaphoreIgnored(slots) == TRUE

\* Line 436, `async with semaphore`: a slot is free.
SemaphoreFree(slots) == slots > 0

\* A download task holds a slot of download_semaphore from its first step to
\* the step that resolves it.
InDownload(t) == t.pc \in {"rl", "sleep", "stream", "hash"}
HoldsRateLimiter(t) == t.pc \in {"sleep", "stream"}
InFlight == {i \in DOMAIN tasks : InDownload(tasks[i])}

NewTask(id, format, link) ==
    [id |-> id, format |-> format, link |-> link, pc |-> "start",
     outcome |-> "pending"]

\* The task leaves download_article with `outcome`, the wrapper updates the
\* session and the semaphore slot is released on the way out.
Resolve(i, outcome) ==
    /\ tasks' = [tasks EXCEPT ![i].pc = "done", ![i].outcome = outcome]
    /\ session' = WrapperSession(session, tasks[i].id, outcome)

\* _download_with_semaphore up to the first suspension of download_article:
\* the semaphore, the skip check, the URL, mkdir, the progress task and the
\* rate limiter (asyncio.Semaphore.acquire does not suspend when a slot is
\* free).
TaskBegin(i) ==
    /\ tasks[i].pc = "start"
    /\ SemaphoreFree(download_semaphore)
    /\ LET t   == tasks[i]
           url == UrlOutcome(t.format, t.link)
       IN  IF AlreadyDownloaded(downloaded_ids, t.id)
           THEN /\ Resolve(i, "already")
                /\ UNCHANGED <<download_semaphore, rate_limiter>>
           ELSE IF url # "ok"
           THEN /\ Resolve(i, url)
                /\ UNCHANGED <<download_semaphore, rate_limiter>>
           ELSE \/ /\ Resolve(i, HandlerOutcome(cfg.progress, FALSE))
                   /\ UNCHANGED <<download_semaphore, rate_limiter>>
                \/ /\ download_semaphore' = download_semaphore - 1
                   /\ UNCHANGED session
                   /\ IF SemaphoreFree(rate_limiter)
                      THEN /\ tasks' = [tasks EXCEPT ![i].pc = "sleep"]
                           /\ rate_limiter' = rate_limiter - 1
                      ELSE /\ tasks' = [tasks EXCEPT ![i].pc = "rl"]
                           /\ UNCHANGED rate_limiter
    /\ UNCHANGED <<clientVars, logFile, lock, calls, new_storage, log0, downloaded_ids, download_results, cfg, pc, catIdx,
                   downloaded_count, articles_needed, attempt,
                   fetched_ids, cache, run>>

\* Line 249, `async with self.rate_limiter`, for a task that had to wait: a
\* slot has been released.
TaskAcquire(i) ==
    /\ tasks[i].pc = "rl"
    /\ SemaphoreFree(rate_limiter)
    /\ rate_limiter' = rate_limiter - 1
    /\ tasks' = [tasks EXCEPT ![i].pc = "sleep"]
    /\ UNCHANGED <<clientVars, logFile, lock, calls, new_storage, log0, downloaded_ids, download_results, session, cfg, pc,
                   catIdx, downloaded_count, articles_needed, attempt,
                   download_semaphore, fetched_ids, cache, run>>

\* Lines 250-253: the sleep is over, session.get and raise_for_status.
TaskRequest(i) ==
    /\ tasks[i].pc = "sleep"
    /\ \/ /\ tasks' = [tasks EXCEPT ![i].pc = "stream"]
          /\ UNCHANGED <<session, rate_limiter, download_semaphore>>
       \/ /\ Resolve(i, HandlerOutcome(cfg.progress, TRUE))
          /\ rate_limiter' = Released(rate_limiter)
          /\ download_semaphore' = Released(download_semaphore)
    /\ UNCHANGED <<clientVars, logFile, lock, calls, new_storage, log0, downloaded_ids, download_results, cfg, pc, catIdx,
                   downloaded_count, articles_needed, attempt, fetched_ids,
                   cache, run>>

\* Lines 264-269: the body is streamed to the file; the rate limiter slot is
\* released when the block is left, normally or by an exception.
TaskStream(i) ==
    /\ tasks[i].pc = "stream"
    /\ rate_limiter' = Released(rate_limiter)
    /\ \/ /\ tasks' = [tasks EXCEPT ![i].pc = "hash"]
          /\ UNCHANGED <<session, download_semaphore>>
       \/ /\ Resolve(i, HandlerOutcome(cfg.progress, TRUE))
          /\ download_semaphore' = Released(download_semaphore)
    /\ UNCHANGED <<clientVars, logFile, lock, calls, new_storage, log0, downloaded_ids, download_results, cfg, pc, catIdx,
                   downloaded_count, articles_needed, attempt, fetched_ids,
                   cache, run>>

\* Lines 272-305: the checksum, the file size and the successful result.
TaskHash(i) ==
    /\ tasks[i].pc = "hash"
    /\ \/ Resolve(i, "success")
       \/ Resolve(i, HandlerOutcome(cfg.progress, TRUE))
    /\ download_semaphore' = Released(download_semaphore)
    /\ UNCHANGED <<clientVars, logFile, lock, calls, new_storage, log0, downloaded_ids, download_results, cfg, pc, catIdx,
                   downloaded_count, articles_needed, attempt, rate_limiter,
                   fetched_ids, cache, run>>

\* ------------------------------------------- fetch_articles_from_category

CategoryOf(k) == cfg.categories[k]

\* Line 68 and line 375: the cache key of the fetch for the current category.
CacheKey == <<CategoryOf(catIdx), Min(100, articles_needed)>>
\* Lines 461 and 517: the keys of fetch_article_by_id and of search_articles.
CacheKeys ==
    ({"c1", "c2"} \X (1..100))
        \cup ({"article_a", "article_b", "search_q"} \X {1})

\* Cache.__init__, line 26: ttl_days, which ArxivScraper leaves at its default.
ttl_days == 7

\* Cache.get, lines 43-57: no file, or a file older than the TTL, gives None;
\* the answer is NoFile for None and File(value) for a value.
CacheGet(entry, age) ==
    IF entry = NoFile THEN NoFile
    ELSE IF age > ttl_days THEN NoFile
    ELSE entry

\* An attempt that failed is followed by another one whatever their number.
RetryAlways(n) == TRUE

\* stop_after_attempt(3), line 55.
MayRetry(n) == n < FetchAttempts

\* Line 72, `if cached_result`: an entry is served when it is a non-empty list.
CacheHit(entry) == entry # NoFile /\ Stored(entry) # <<>>

\* Lines 100-110: the parsed entries in feed order, without the identifiers
\* this scraper has already returned.
RECURSIVE SkipDuplicates(_, _)
SkipDuplicates(feed, seen) ==
    IF feed = <<>> THEN <<>>
    ELSE IF Head(feed) \in seen
         THEN SkipDuplicates(Tail(feed), seen)
         ELSE <<Head(feed)>> \o SkipDuplicates(Tail(feed), seen \cup {Head(feed)})

\* -------------------------------------------------------- scrape_articles

\* Every returned record is attempted, whatever is still needed.
AttemptedAll(arts, needed) == arts

\* Line 383, articles[:articles_needed].
Attempted(arts, needed) == SubSeq(arts, 1, Min(Len(arts), needed))

\* Lines 383-399: the (article, format) pairs in the order of the two loops.
Pairs(arts, formats) ==
    [n \in 1..(Len(arts) * Len(formats)) |->
        [id     |-> arts[((n - 1) \div Len(formats)) + 1],
         format |-> formats[((n - 1) % Len(formats)) + 1]]]

\* Line 388: the pair is skipped, and counted as skipped, when the identifier
\* is known when the category is processed.
IsKnown(p) == p.id \in downloaded_ids

RECURSIVE ScheduleTasks(_)
ScheduleTasks(pairs) ==
    IF pairs = <<>> THEN <<>>
    ELSE IF IsKnown(Head(pairs))
         THEN ScheduleTasks(Tail(pairs))
         ELSE <<NewTask(Head(pairs).id, Head(pairs).format, TRUE)>>
              \o ScheduleTasks(Tail(pairs))

SkippedIn(pairs) == Cardinality({n \in DOMAIN pairs : IsKnown(pairs[n])})

\* Lines 406-412: what the loop over the gathered results does to the session,
\* downloaded_count and downloaded_ids.
RECURSIVE ProcessResults(_, _)
ProcessResults(results, acc) ==
    IF results = <<>> THEN acc
    ELSE LET r == Head(results) IN
         ProcessResults(Tail(results),
            CASE r.outcome = "raised" ->
                    [acc EXCEPT !.session = add_error(@, "exception", r.id)]
              [] r.outcome = "success" ->
                    [acc EXCEPT !.count = @ + 1, !.ids = @ \cup {r.id}]
              [] OTHER -> acc)

\* A loop that never finds its target reached.
TargetIgnored(count) == FALSE

\* Lines 365-366 and 415-416: the target count is reached.
TargetReached(count) == count >= cfg.max_articles

CatRecord(ok, returned, scheduled, skipped, cut) ==
    [idx |-> catIdx, category |-> CategoryOf(catIdx), ok |-> ok,
     before |-> run.successes, needed |-> articles_needed,
     returned |-> returned, scheduled |-> scheduled, skipped |-> skipped,
     cut |-> cut, known |-> downloaded_ids]

\* cli _scrape, lines 164-165: the ledger is loaded from the log.
LoadLedger ==
    /\ pc = "load"
    /\ LET got == Replay(logFile, downloaded_ids, download_results) IN
       /\ downloaded_ids' = got.ids
       /\ download_results' = got.results
       /\ run' = [run EXCEPT !.ledger0 = got.ids]
    /\ pc' = "loop"
    /\ UNCHANGED <<clientVars, logFile, lock, calls, new_storage, log0, session, cfg, catIdx, downloaded_count,
                   articles_needed, attempt, tasks, download_semaphore,
                   rate_limiter, fetched_ids, cache>>

\* Lines 364-370: the head of the loop over the categories.
LoopTop ==
    /\ pc = "loop"
    /\ IF catIdx > Len(cfg.categories) \/ TargetReached(downloaded_count)
       THEN pc' = "return" /\ UNCHANGED <<articles_needed, attempt>>
       ELSE /\ articles_needed' = cfg.max_articles - downloaded_count
            /\ attempt' = 1
            /\ pc' = "fetch"
    /\ UNCHANGED <<clientVars, logFile, lock, calls, new_storage, log0, downloaded_ids, download_results, session, cfg,
                   catIdx, downloaded_count, tasks, download_semaphore,
                   rate_limiter, fetched_ids, cache, run>>

\* Lines 378-416 for a category without download tasks, or lines 378-403 up
\* to the gather.
Process(arts) ==
    LET cut   == Attempted(arts, articles_needed)
        pairs == Pairs(cut, cfg.formats)
        todo  == ScheduleTasks(pairs)
    IN  /\ session' = [session EXCEPT
                          !.articles_found = @ + Len(arts),
                          !.articles_skipped = @ + SkippedIn(pairs)]
        /\ tasks' = todo
        /\ run' = [run EXCEPT !.cats = Append(@,
                      CatRecord(TRUE, Len(arts), Len(todo), SkippedIn(pairs), cut))]
        /\ IF todo = <<>>
           THEN pc' = "loop" /\ catIdx' = catIdx + 1
           ELSE pc' = "gather" /\ UNCHANGED catIdx

\* Lines 70-74: one attempt starts, and a stored non-empty list is returned as
\* it is. config.enable_caching is at its default, true; no entry expires
\* within a run (the TTL is seven days).
FetchCall ==
    /\ pc = "fetch"
    /\ IF CacheHit(cache[CacheKey])
       THEN Process(Stored(cache[CacheKey]))
       ELSE /\ pc' = "fetch_rl"
            /\ UNCHANGED <<session, tasks, run, catIdx>>
    /\ UNCHANGED <<clientVars, logFile, lock, calls, new_storage, log0, downloaded_ids, download_results, cfg,
                   downloaded_count, articles_needed, attempt,
                   download_semaphore, rate_limiter, fetched_ids, cache>>

\* Line 76, `async with self.rate_limiter`.
FetchAcquire ==
    /\ pc = "fetch_rl"
    /\ SemaphoreFree(rate_limiter)
    /\ rate_limiter' = rate_limiter - 1
    /\ pc' = "fetch_sleep"
    /\ UNCHANGED <<clientVars, logFile, lock, calls, new_storage, log0, downloaded_ids, download_results, session, cfg,
                   catIdx, downloaded_count, articles_needed, attempt, tasks,
                   download_semaphore, fetched_ids, cache, run>>

\* Lines 77-92: the sleep is over and session.get sends the request, inside
\* the `async with self.rate_limiter` block.
FetchRequest ==
    /\ pc = "fetch_sleep"
    /\ pc' = "fetch_get"
    /\ UNCHANGED <<clientVars, logFile, lock, calls, new_storage, log0, downloaded_ids, download_results, session, cfg,
                   catIdx, downloaded_count, articles_needed, attempt, tasks,
                   download_semaphore, rate_limiter, fetched_ids, cache, run>>

\* Lines 92-118, a request that answers: the feed is parsed, duplicates are
\* dropped, the list is cached and returned to scrape_articles.
FetchOk ==
    /\ pc = "fetch_get"
    /\ rate_limiter' = Released(rate_limiter)
    /\ \E feed \in SeqsUpTo(Ids, MaxFeed) :
          LET arts == SkipDuplicates(feed, fetched_ids) IN
          /\ fetched_ids' = fetched_ids \cup Range(arts)
          /\ cache' = [cache EXCEPT ![CacheKey] = File(arts)]
          /\ Process(arts)
    /\ UNCHANGED <<clientVars, logFile, lock, calls, new_storage, log0, downloaded_ids, download_results, cfg,
                   downloaded_count, articles_needed, attempt,
                   download_semaphore>>

\* A failed fetch that ends the loop instead of going on to the next category.
FetchFailAborts ==
    /\ pc = "fetch_get"
    /\ rate_limiter' = Released(rate_limiter)
    /\ IF MayRetry(attempt)
       THEN /\ attempt' = attempt + 1
            /\ pc' = "fetch"
            /\ UNCHANGED <<session, catIdx, run>>
       ELSE /\ session' = add_error(session, "category", CategoryOf(catIdx))
            /\ run' = [run EXCEPT !.cats = Append(@, CatRecord(FALSE, 0, 0, 0, <<>>))]
            /\ pc' = "return"
            /\ UNCHANGED <<attempt, catIdx>>
    /\ UNCHANGED <<clientVars, logFile, lock, calls, new_storage, log0, downloaded_ids, download_results, cfg,
                   downloaded_count, articles_needed, tasks,
                   download_semaphore, fetched_ids, cache>>

\* Lines 92-93 raise aiohttp.ClientError or asyncio.TimeoutError: tenacity
\* calls again until stop_after_attempt(3), then raises RetryError, which
\* lines 418-422 of scrape_articles turn into a session error.
FetchFail ==
    /\ pc = "fetch_get"
    /\ rate_limiter' = Released(rate_limiter)
    /\ IF MayRetry(attempt)
       THEN /\ attempt' = attempt + 1
            /\ pc' = "fetch"
            /\ UNCHANGED <<session, catIdx, run>>
       ELSE /\ session' = add_error(session, "category", CategoryOf(catIdx))
            /\ run' = [run EXCEPT !.cats = Append(@, CatRecord(FALSE, 0, 0, 0, <<>>))]
            /\ catIdx' = catIdx + 1
            /\ pc' = "loop"
            /\ UNCHANGED attempt
    /\ UNCHANGED <<clientVars, logFile, lock, calls, new_storage, log0, downloaded_ids, download_results, cfg,
                   downloaded_count, articles_needed, tasks,
                   download_semaphore, fetched_ids, cache>>

Succeeded == {i \in DOMAIN tasks : tasks[i].outcome = "success"}

\* A gather that returns without waiting for its tasks.
NoneAwaited(ts) == TRUE

\* Line 403, `await asyncio.gather(...)`: every task has resolved.
AllResolved(ts) == \A i \in DOMAIN ts : ts[i].pc = "done"

\* Lines 403-416: every task of the gather has resolved.
GatherDone ==
    /\ pc = "gather"
    /\ AllResolved(tasks)
    /\ LET got == ProcessResults(tasks,
                     [session |-> session, count |-> downloaded_count,
                      ids |-> downloaded_ids])
       IN  /\ session' = got.session
           /\ downloaded_count' = got.count
           /\ downloaded_ids' = got.ids
           /\ run' = [run EXCEPT
                        !.succeeded = @ \cup {tasks[i].id : i \in Succeeded},
                        !.successes = @ + Cardinality(Succeeded)]
           /\ IF TargetReached(got.count)
              THEN pc' = "return" /\ UNCHANGED catIdx
              ELSE pc' = "loop" /\ catIdx' = catIdx + 1
    /\ tasks' = <<>>
    /\ UNCHANGED <<clientVars, logFile, lock, calls, new_storage, log0, download_results, cfg, articles_needed, attempt,
                   download_semaphore, rate_limiter, fetched_ids, cache>>

\* cli _scrape, lines 204-208: session.finish() and the session file.
FinishRun ==
    /\ pc = "return"
    /\ session' = finish(session, Now)
    /\ pc' = "done"
    /\ UNCHANGED <<clientVars, logFile, lock, calls, new_storage, log0, downloaded_ids, download_results, cfg, catIdx,
                   downloaded_count, articles_needed, attempt, tasks,
                   download_semaphore, rate_limiter, fetched_ids, cache, run>>

\* ------------------------------------------------------- the scrape run

\* A log left by earlier runs: lines written by save_download_result.
PriorLogs == {<<>>, <<ModelDump(SuccessOf("a", "source"))>>}

\* The cache directory as earlier runs left it: empty, or holding a fresh
\* answer for the first category.
PriorCaches ==
    {[k \in CacheKeys |-> NoFile],
     [k \in CacheKeys |-> IF k[1] = "c1" THEN File(<<"a">>) ELSE NoFile]}

Configs ==
    [categories : CategoryLists,
     max_articles : 1..MaxTarget,
     formats : FormatLists,
     progress : BOOLEAN,
     max_concurrent_downloads : 1..MaxGate,
     max_connections : 1..MaxGate]

\* The history of a run: the ledger as loaded, the identifiers and the number
\* of the downloads that succeeded, and one record per category processed.
NewRun == [ledger0 |-> {}, succeeded |-> {}, successes |-> 0, cats |-> <<>>]

\* Nothing is called directly and every cache file is fresh.
IdleClient ==
    /\ cache_age = [k \in CacheKeys |-> 0]
    /\ fetch = NoFetch
    /\ batches = <<>>
    /\ cli = NewCli
    /\ article = NoArticle
    /\ clock = 1
    /\ finished = <<>>
    /\ disk = NoDisk

Init ==
    /\ logFile \in PriorLogs
    /\ cfg \in Configs
    /\ downloaded_ids = {}
    /\ download_results = <<>>
    /\ lock = {}
    /\ calls = <<>>
    /\ new_storage = NewStorage
    /\ log0 = logFile
    /\ session = NewSession
    /\ pc = "load"
    /\ catIdx = 1
    /\ downloaded_count = 0
    /\ articles_needed = 0
    /\ attempt = 0
    /\ tasks = <<>>
    /\ download_semaphore = cfg.max_concurrent_downloads
    /\ rate_limiter = cfg.max_connections
    /\ fetched_ids = {}
    /\ cache \in PriorCaches
    /\ run = NewRun
    /\ IdleClient

\* The event loop runs one step of one of the gathered tasks.
Begin   == \E i \in DOMAIN tasks : TaskBegin(i)
Acquire == \E i \in DOMAIN tasks : TaskAcquire(i)
Request == \E i \in DOMAIN tasks : TaskRequest(i)
Stream  == \E i \in DOMAIN tasks : TaskStream(i)
Hash    == \E i \in DOMAIN tasks : TaskHash(i)

Next ==
    \/ LoadLedger
    \/ LoopTop
    \/ FetchCall
    \/ FetchAcquire
    \/ FetchRequest
    \/ FetchOk
    \/ FetchFail
    \/ GatherDone
    \/ FinishRun
    \/ Begin
    \/ Acquire
    \/ Request
    \/ Stream
    \/ Hash

Spec == Init /\ [][Next]_vars

\* The event loop of asyncio.run never idles while a callback is ready: some
\* step of the run is taken as long as one is possible.
Fairness == WF_vars(Next)

\* The runs that start without a log and without cache files and ask for one
\* format: every category is fetched over HTTP and every returned record
\* within the cut-off gives one download.
InitFair ==
    /\ Init
    /\ logFile = <<>>
    /\ \A k \in CacheKeys : cache[k] = NoFile
    /\ Len(cfg.formats) = 1

SpecFair == InitFair /\ [][Next]_vars /\ Fairness

\* ------------------------------------- the download worker called directly

\* Number of download tasks handed to one gather.
NumTasks == 2

\* The calls of _download_with_semaphore a caller can make: a record with or
\* without the link of the requested format, and a format download_article
\* does not support.
WorkerCalls ==
    {NewTask(id, "source", link) : id \in Ids, link \in BOOLEAN}
        \cup {NewTask(id, "html", TRUE) : id \in Ids}

InitWorker ==
    /\ tasks \in [1..NumTasks -> WorkerCalls]
    /\ downloaded_ids \in {{}, {"a"}}
    /\ cfg \in {c \in Configs : c.max_articles = 1 /\ c.formats = <<"source">>}
    /\ logFile = <<>>
    /\ download_results = <<>>
    /\ lock = {}
    /\ calls = <<>>
    /\ new_storage = NewStorage
    /\ log0 = logFile
    /\ session = NewSession
    /\ pc = "worker"
    /\ catIdx = 1
    /\ downloaded_count = 0
    /\ articles_needed = 0
    /\ attempt = 0
    /\ download_semaphore = cfg.max_concurrent_downloads
    /\ rate_limiter = cfg.max_connections
    /\ fetched_ids = {}
    /\ cache = [k \in CacheKeys |-> NoFile]
    /\ run = NewRun
    /\ IdleClient

NextWorker ==
    \/ Begin
    \/ Acquire
    \/ Request
    \/ Stream
    \/ Hash

SpecWorker == InitWorker /\ [][NextWorker]_vars

\* ------------------------------------------- the StorageManager's callers

\* Longest log on disk before the calls.
MaxLines == 2
\* Number of coroutines that call one StorageManager at the same time.
NumCallers == 2

\* stop_after_attempt(3) on save_download_result.
SaveAttempts == 3

\* The lines a log can hold: a record written by save_download_result, an
\* object with the identifier alone, an object without identifier, a JSON
\* value that is no object (a new-style identifier alone on its line is the
\* JSON number 2301.12345), text that is not JSON, and an empty line.
Lines ==
    {ModelDump(SuccessOf("a", "source")),
     [raw |-> "{id}", json |-> "object", keys |-> {"arxiv_id"},
      data |-> [NoData EXCEPT !.arxiv_id = "b"]],
     [raw |-> "{other}", json |-> "object", keys |-> {}, data |-> NoData],
     [raw |-> "2301.12345", json |-> "value", keys |-> {}, data |-> NoData],
     [raw |-> "hep-th/9901001", json |-> "invalid", keys |-> {}, data |-> NoData],
     [raw |-> "", json |-> "blank", keys |-> {}, data |-> NoData]}

\* The outcomes handed to save_download_result.
Outcomes ==
    {[arxiv_id |-> "a", success |-> TRUE, file_format |-> "source"],
     [arxiv_id |-> "a", success |-> FALSE, file_format |-> "pdf"],
     [arxiv_id |-> "b", success |-> FALSE, file_format |-> "source"]}

NewCall(op, result) ==
    [op |-> op, result |-> result, pc |-> "start", tries |-> 0,
     returned |-> "pending", read |-> <<>>]

Calls ==
    {NewCall("save", r) : r \in Outcomes} \cup {NewCall("load", NoData)}

\* A caller that does not wait for the lock.
LockIgnored(holder) == TRUE

\* Lines 47 and 82, `async with self._lock`.
LockFree(holder) == holder = {}

pipelineVars == <<session, cfg, pc, catIdx, downloaded_count, articles_needed,
                  attempt, tasks, download_semaphore, rate_limiter,
                  fetched_ids, cache, run>>

\* save_download_result, lines 82-91: the lock is taken, the outcome is added
\* to the set and to the list, and the file is being opened.
SaveEnter(p) ==
    /\ calls[p].op = "save" /\ calls[p].pc = "start"
    /\ LockFree(lock)
    /\ lock' = {p}
    /\ downloaded_ids' = downloaded_ids \cup {calls[p].result.arxiv_id}
    /\ download_results' = Append(download_results, calls[p].result)
    /\ calls' = [calls EXCEPT ![p].pc = "open", ![p].tries = @ + 1]
    /\ UNCHANGED <<logFile, new_storage, log0, pipelineVars, clientVars>>

\* Lines 94-96 and the retry decorator: the exception leaves the lock, is
\* logged and raised again; tenacity calls again until the third attempt.
SaveFails(p) ==
    /\ lock' = {}
    /\ calls' = IF calls[p].tries < SaveAttempts
                THEN [calls EXCEPT ![p].pc = "start"]
                ELSE [calls EXCEPT ![p].pc = "done", ![p].returned = "raised"]

\* Line 91: aiofiles.open in append mode answers or raises.
SaveOpen(p) ==
    /\ calls[p].op = "save" /\ calls[p].pc = "open"
    /\ \/ calls' = [calls EXCEPT ![p].pc = "write"] /\ UNCHANGED lock
       \/ SaveFails(p)
    /\ UNCHANGED <<logFile, downloaded_ids, download_results, new_storage,
                   log0, pipelineVars, clientVars>>

\* Line 92: one write of the whole line, which reaches the file or raises.
SaveWrite(p) ==
    /\ calls[p].op = "save" /\ calls[p].pc = "write"
    /\ \/ /\ logFile' = Append(logFile, ModelDump(calls[p].result))
          /\ calls' = [calls EXCEPT ![p].pc = "close"]
          /\ UNCHANGED lock
       \/ SaveFails(p) /\ UNCHANGED logFile
    /\ UNCHANGED <<downloaded_ids, download_results, new_storage, log0,
                   pipelineVars, clientVars>>

\* The file is closed and the lock released: the call returns.
SaveClose(p) ==
    /\ calls[p].op = "save" /\ calls[p].pc = "close"
    /\ lock' = {}
    /\ calls' = [calls EXCEPT ![p].pc = "done", ![p].returned = "ok"]
    /\ UNCHANGED <<logFile, downloaded_ids, download_results, new_storage,
                   log0, pipelineVars, clientVars>>

\* load_downloaded_ids on the same StorageManager, lines 42-48.
LoadEnter(p) ==
    /\ calls[p].op = "load" /\ calls[p].pc = "start"
    /\ LockFree(lock)
    /\ lock' = {p}
    /\ calls' = [calls EXCEPT ![p].pc = "read"]
    /\ UNCHANGED <<logFile, downloaded_ids, download_results, new_storage,
                   log0, pipelineVars, clientVars>>

\* Lines 49-76: the lines are replayed into the set and the list the instance
\* already holds.
LoadRead(p) ==
    /\ calls[p].op = "load" /\ calls[p].pc = "read"
    /\ LET got == Replay(logFile, downloaded_ids, download_results) IN
       /\ downloaded_ids' = got.ids
       /\ download_results' = got.results
    /\ lock' = {}
    /\ calls' = [calls EXCEPT ![p].pc = "done", ![p].returned = "ok",
                              ![p].read = logFile]
    /\ UNCHANGED <<logFile, new_storage, log0, pipelineVars, clientVars>>

AllReturned == \A p \in DOMAIN calls : calls[p].pc = "done"

\* test_save_and_load, lines 168-170: once the calls have returned, a new
\* StorageManager on the same path loads the log.
LoadNew ==
    /\ AllReturned
    /\ ~new_storage.loaded
    /\ LET got == Replay(logFile, {}, <<>>) IN
       new_storage' = [loaded |-> TRUE, downloaded_ids |-> got.ids,
                       download_results |-> got.results]
    /\ UNCHANGED <<logFile, downloaded_ids, download_results, lock, calls,
                   log0, pipelineVars, clientVars>>

IdleConfig == CHOOSE c \in Configs : TRUE

InitStorage ==
    /\ logFile \in SeqsUpTo(Lines, MaxLines)
    /\ log0 = logFile
    /\ calls \in [1..NumCallers -> Calls]
    /\ downloaded_ids = {}
    /\ download_results = <<>>
    /\ lock = {}
    /\ new_storage = NewStorage
    /\ session = NewSession
    /\ cfg = IdleConfig
    /\ pc = "storage"
    /\ catIdx = 1
    /\ downloaded_count = 0
    /\ articles_needed = 0
    /\ attempt = 0
    /\ tasks = <<>>
    /\ download_semaphore = cfg.max_concurrent_downloads
    /\ rate_limiter = cfg.max_connections
    /\ fetched_ids = {}
    /\ cache = [k \in CacheKeys |-> NoFile]
    /\ run = NewRun
    /\ IdleClient

Enter == \E p \in DOMAIN calls : SaveEnter(p)
Open  == \E p \in DOMAIN calls : SaveOpen(p)
Write == \E p \in DOMAIN calls : SaveWrite(p)
Close == \E p \in DOMAIN calls : SaveClose(p)
Load  == \E p \in DOMAIN calls : LoadEnter(p)
Read  == \E p \in DOMAIN calls : LoadRead(p)

NextStorage ==
    \/ Enter
    \/ Open
    \/ Write
    \/ Close
    \/ Load
    \/ Read
    \/ LoadNew

SpecStorage == InitStorage /\ [][NextStorage]_vars

\* -------------------------- backup, restore and deduplicate on the log

\* Longest backup file handed to restore_from_backup.
MaxBackup == 1

MaintOps == {"dedup", "restore"}

\* A call of deduplicate_database or restore_from_backup: `read` is the local
\* `content` or `entries`, `seen` the local seen_ids; `before`, `existed`,
\* `copy` and `after` keep, for the properties, the log when the call began,
\* whether it existed, the backup the call wrote and the log when it returned.
MaintCall(op) ==
    [op |-> op, result |-> NoData, pc |-> "start", tries |-> 0,
     returned |-> "pending", read |-> <<>>, seen |-> {}, before |-> <<>>,
     existed |-> FALSE, copy |-> NoFile, after |-> <<>>]

\* deduplicate_database, lines 296-310: the loop over the lines of the log.
\* Empty lines are left out, a line that is not JSON is kept, a dict is kept
\* when it has an identifier not seen before; json.loads of any other JSON
\* value gives no dict and data.get raises AttributeError, which only the
\* outer handler catches.
RECURSIVE DedupScan(_, _, _)
DedupScan(lines, entries, seen) ==
    IF lines = <<>> THEN [raised |-> FALSE, entries |-> entries, seen |-> seen]
    ELSE LET line == Head(lines) IN
         CASE line.json = "blank"   -> DedupScan(Tail(lines), entries, seen)
           [] line.json = "invalid" ->
                DedupScan(Tail(lines), Append(entries, line), seen)
           [] line.json = "value"   ->
                [raised |-> TRUE, entries |-> entries, seen |-> seen]
           [] OTHER ->
                IF "arxiv_id" \in line.keys /\ line.data.arxiv_id \notin seen
                THEN DedupScan(Tail(lines), Append(entries, line),
                               seen \cup {line.data.arxiv_id})
                ELSE DedupScan(Tail(lines), entries, seen)

\* The command that calls the maintenance methods awaits one before it calls
\* the next.
Turn(p) ==
    \A q \in 1..(p - 1) : calls[q].op \in MaintOps => calls[q].pc = "done"

maintFrame == <<new_storage, log0, pipelineVars, cache_age, fetch, batches,
                cli, article, clock, finished>>

\* Lines 259-265 and 289-291, then backup_database up to its first read
\* (lines 235-245): restore_from_backup returns False when the backup file
\* does not exist; opening a log that does not exist raises
\* FileNotFoundError, which backup_database raises again and the caller's
\* handler turns into False or 0.
MaintStart(p) ==
    /\ calls[p].op \in MaintOps /\ calls[p].pc = "start"
    /\ Turn(p)
    /\ LET c == [calls[p] EXCEPT !.before = logFile, !.existed = disk.live] IN
       IF calls[p].op = "restore" /\ disk.given = NoFile
       THEN calls' = [calls EXCEPT ![p] = [c EXCEPT !.pc = "done",
                          !.returned = "false", !.after = logFile]]
       ELSE IF ~disk.live
       THEN calls' = [calls EXCEPT ![p] = [c EXCEPT !.pc = "done",
                          !.returned = "failed", !.after = logFile]]
       ELSE calls' = [calls EXCEPT ![p] = [c EXCEPT !.pc = "bk_write",
                          !.read = logFile]]
    /\ UNCHANGED <<logFile, downloaded_ids, download_results, lock, disk,
                   maintFrame>>

\* backup_database, lines 247-251: the content read is written to the backup
\* file.
BackupWrite(p) ==
    /\ calls[p].op \in MaintOps /\ calls[p].pc = "bk_write"
    /\ disk' = [disk EXCEPT !.auto = File(calls[p].read)]
    /\ calls' = [calls EXCEPT
                   ![p].pc = IF calls[p].op = "dedup" THEN "scan" ELSE "rs_read",
                   ![p].copy = File(calls[p].read)]
    /\ UNCHANGED <<logFile, downloaded_ids, download_results, lock,
                   maintFrame>>

\* deduplicate_database, lines 293-310: the log is read.
DedupRead(p) ==
    /\ calls[p].op = "dedup" /\ calls[p].pc = "scan"
    /\ LET got == DedupScan(logFile, <<>>, {}) IN
       IF got.raised
       THEN calls' = [calls EXCEPT ![p].pc = "done", ![p].returned = "failed",
                                   ![p].after = logFile]
       ELSE calls' = [calls EXCEPT ![p].pc = "rewrite",
                                   ![p].read = got.entries,
                                   ![p].seen = got.seen]
    /\ UNCHANGED <<logFile, downloaded_ids, download_results, lock, disk,
                   maintFrame>>

\* Lines 312-321: the log is written again from `entries`, the set becomes
\* seen_ids and the list is cleared.
DedupWrite(p) ==
    /\ calls[p].op = "dedup" /\ calls[p].pc = "rewrite"
    /\ logFile' = calls[p].read
    /\ downloaded_ids' = calls[p].seen
    /\ download_results' = <<>>
    /\ calls' = [calls EXCEPT ![p].pc = "reload"]
    /\ UNCHANGED <<lock, disk, maintFrame>>

\* restore_from_backup, lines 269-270: the backup file is read.
RestoreRead(p) ==
    /\ calls[p].op = "restore" /\ calls[p].pc = "rs_read"
    /\ calls' = [calls EXCEPT ![p].pc = "rs_write",
                              ![p].read = Stored(disk.given)]
    /\ UNCHANGED <<logFile, downloaded_ids, download_results, lock, disk,
                   maintFrame>>

\* Lines 272-277: the content is written over the log, the set and the list
\* are cleared.
RestoreWrite(p) ==
    /\ calls[p].op = "restore" /\ calls[p].pc = "rs_write"
    /\ logFile' = calls[p].read
    /\ downloaded_ids' = {}
    /\ download_results' = <<>>
    /\ calls' = [calls EXCEPT ![p].pc = "reload"]
    /\ UNCHANGED <<lock, disk, maintFrame>>

\* Lines 278 and 322, load_downloaded_ids: the lock is taken.
ReloadEnter(p) ==
    /\ calls[p].op \in MaintOps /\ calls[p].pc = "reload"
    /\ LockFree(lock)
    /\ lock' = {p}
    /\ calls' = [calls EXCEPT ![p].pc = "reload_read"]
    /\ UNCHANGED <<logFile, downloaded_ids, download_results, disk,
                   maintFrame>>

\* The log is replayed into the set and the list, and the call returns.
ReloadRead(p) ==
    /\ calls[p].op \in MaintOps /\ calls[p].pc = "reload_read"
    /\ LET got == Replay(logFile, downloaded_ids, download_results) IN
       /\ downloaded_ids' = got.ids
       /\ download_results' = got.results
    /\ lock' = {}
    /\ calls' = [calls EXCEPT ![p].pc = "done", ![p].returned = "ok",
                              ![p].after = logFile]
    /\ UNCHANGED <<logFile, disk, maintFrame>>

\* One maintenance call, deduplicate_database twice, or a maintenance call
\* next to a save_download_result on the same StorageManager.
MaintPlans ==
    {<<MaintCall(op)>> : op \in MaintOps}
        \cup {<<MaintCall("dedup"), MaintCall("dedup")>>}
        \cup {<<MaintCall(op), NewCall("save", r)>> :
                 op \in MaintOps, r \in Outcomes}

Savers == {p \in DOMAIN calls : calls[p].op = "save"}

\* The StorageManager has loaded the log, as the commands do at their start;
\* the log may not exist yet when nothing is being saved.
InitMaint ==
    /\ calls \in MaintPlans
    /\ logFile \in SeqsUpTo(Lines, MaxLines)
    /\ disk \in [live : BOOLEAN,
                 given : {NoFile} \cup {File(l) : l \in SeqsUpTo(Lines, MaxBackup)},
                 auto : {NoFile}]
    /\ ~disk.live => (logFile = <<>> /\ Savers = {})
    /\ calls[1].op = "dedup" => disk.given = NoFile
    /\ log0 = logFile
    /\ downloaded_ids = Replay(logFile, {}, <<>>).ids
    /\ download_results = Replay(logFile, {}, <<>>).results
    /\ lock = {}
    /\ new_storage = NewStorage
    /\ session = NewSession
    /\ cfg = IdleConfig
    /\ pc = "storage"
    /\ catIdx = 1
    /\ downloaded_count = 0
    /\ articles_needed = 0
    /\ attempt = 0
    /\ tasks = <<>>
    /\ download_semaphore = cfg.max_concurrent_downloads
    /\ rate_limiter = cfg.max_connections
    /\ fetched_ids = {}
    /\ cache = [k \in CacheKeys |-> NoFile]
    /\ run = NewRun
    /\ cache_age = [k \in CacheKeys |-> 0]
    /\ fetch = NoFetch
    /\ batches = <<>>
    /\ cli = NewCli
    /\ article = NoArticle
    /\ clock = 1
    /\ finished = <<>>

Start      == \E p \in DOMAIN calls : MaintStart(p)
Backup     == \E p \in DOMAIN calls : BackupWrite(p)
Scan       == \E p \in DOMAIN calls : DedupRead(p)
Rewrite    == \E p \in DOMAIN calls : DedupWrite(p)
ReadBackup == \E p \in DOMAIN calls : RestoreRead(p)
Restore    == \E p \in DOMAIN calls : RestoreWrite(p)
Reload     == \E p \in DOMAIN calls : ReloadEnter(p)
Reloaded   == \E p \in DOMAIN calls : ReloadRead(p)

NextMaint ==
    \/ Start
    \/ Backup
    \/ Scan
    \/ Rewrite
    \/ ReadBackup
    \/ Restore
    \/ Reload
    \/ Reloaded
    \/ Enter
    \/ Open
    \/ Write
    \/ Close

SpecMaint == InitMaint /\ [][NextMaint]_vars

\* --------------------------------------- the feed client called directly

\* Number of calls made one after the other on one ArxivScraper.
MaxCalls == 2

\* The calls: fetch_articles_from_category for a category,
\* fetch_article_by_id for an identifier, search_articles for a query.
ClientCalls ==
    {[op |-> "category", arg |-> "c1"], [op |-> "category", arg |-> "c2"],
     [op |-> "by_id", arg |-> "article_a"], [op |-> "search", arg |-> "search_q"]}

\* Lines 68, 461 and 517; max_results is 1 in these calls.
KeyOf(f) == <<f.arg, 1>>

\* The age of a cache file: new, as old as the TTL, older.
Ages == {0, ttl_days, ttl_days + 1}

\* What a call leaves in `batches`: why it ended and what it returned, the
\* requests it issued, and the cache file it found.
Batch(f, status, source, ids) ==
    [op |-> f.op, arg |-> f.arg, status |-> status, source |-> source,
     ids |-> ids, requests |-> f.requests, acquired |-> f.acquired,
     stored |-> f.stored, age |-> f.age]

clientFrame == <<logFile, downloaded_ids, download_results, lock, calls,
                 new_storage, log0, session, cfg, pc, catIdx,
                 downloaded_count, articles_needed, attempt, tasks,
                 download_semaphore, run, cli, article, clock, finished, disk>>

\* A caller calls the feed client.
ClientStart ==
    /\ fetch.pc = "idle"
    /\ Len(batches) < MaxCalls
    /\ \E c \in ClientCalls :
          fetch' = [NoFetch EXCEPT !.op = c.op, !.arg = c.arg, !.pc = "call",
                                   !.attempt = 1,
                                   !.stored = cache[KeyOf(c)],
                                   !.age = cache_age[KeyOf(c)]]
    /\ UNCHANGED <<cache, cache_age, batches, rate_limiter, fetched_ids,
                   clientFrame>>

\* Lines 70-74, 462-466 and 520-524: Cache.get, which deletes a file older
\* than the TTL, and `if cached_result`, which returns what it got when that
\* is not empty.
ClientLookup ==
    /\ fetch.pc = "call"
    /\ LET k   == KeyOf(fetch)
           got == CacheGet(cache[k], cache_age[k])
       IN  /\ cache' = IF cache[k] # NoFile /\ got = NoFile
                       THEN [cache EXCEPT ![k] = NoFile] ELSE cache
           /\ IF CacheHit(got)
              THEN /\ batches' = Append(batches,
                                    Batch(fetch, "returned", "cache", Stored(got)))
                   /\ fetch' = NoFetch
              ELSE /\ fetch' = [fetch EXCEPT !.pc = "rl"]
                   /\ UNCHANGED batches
    /\ UNCHANGED <<cache_age, rate_limiter, fetched_ids, clientFrame>>

\* Lines 76, 470 and 527, `async with self.rate_limiter`.
ClientGate ==
    /\ fetch.pc = "rl"
    /\ SemaphoreFree(rate_limiter)
    /\ rate_limiter' = rate_limiter - 1
    /\ fetch' = [fetch EXCEPT !.pc = "sleep", !.acquired = TRUE]
    /\ UNCHANGED <<cache, cache_age, batches, fetched_ids, clientFrame>>

\* What the call returns for a feed that was read: lines 100-110 without the
\* identifiers already returned, lines 487-491 the first entry if any, lines
\* 547-552 every entry.
Parsed(op, feed) ==
    CASE op = "category" -> SkipDuplicates(feed, fetched_ids)
      [] op = "by_id"    -> SubSeq(feed, 1, Min(1, Len(feed)))
      [] OTHER           -> feed

\* Lines 77-118, 471-497 and 528-559 when the request answers: the entries
\* are parsed, the result is stored in the cache and returned.
ClientAnswer ==
    /\ fetch.pc = "sleep"
    /\ rate_limiter' = Released(rate_limiter)
    /\ \E feed \in SeqsUpTo(Ids, MaxFeed) :
          LET f    == [fetch EXCEPT !.requests = @ + 1]
              arts == Parsed(fetch.op, feed)
              keep == fetch.op = "by_id" /\ arts = <<>>
          IN  /\ fetched_ids' = IF fetch.op = "category"
                                THEN fetched_ids \cup Range(arts)
                                ELSE fetched_ids
              /\ cache' = IF keep THEN cache
                          ELSE [cache EXCEPT ![KeyOf(fetch)] = File(arts)]
              /\ cache_age' = IF keep THEN cache_age
                              ELSE [cache_age EXCEPT ![KeyOf(fetch)] = 0]
              /\ batches' = Append(batches, Batch(f, "returned", "network", arts))
    /\ fetch' = NoFetch
    /\ UNCHANGED clientFrame

\* Lines 92-93, 481-482 and 540-541 raise aiohttp.ClientError or
\* asyncio.TimeoutError. fetch_articles_from_category is decorated with
\* retry: tenacity calls it again, from the cache lookup, and after the last
\* attempt raises RetryError. fetch_article_by_id and search_articles have no
\* decorator: lines 499-501 return None, lines 561-563 return [].
ClientError ==
    /\ fetch.pc = "sleep"
    /\ rate_limiter' = Released(rate_limiter)
    /\ LET f == [fetch EXCEPT !.requests = @ + 1] IN
       IF fetch.op = "category"
       THEN IF MayRetry(fetch.attempt)
            THEN /\ fetch' = [f EXCEPT !.attempt = @ + 1, !.pc = "call"]
                 /\ UNCHANGED batches
            ELSE /\ batches' = Append(batches, Batch(f, "raised", "failure", <<>>))
                 /\ fetch' = NoFetch
       ELSE /\ batches' = Append(batches, Batch(f, "returned", "failure", <<>>))
            /\ fetch' = NoFetch
    /\ UNCHANGED <<cache, cache_age, fetched_ids, clientFrame>>

\* The cache directory before the calls: for the first category no file, or
\* a file of any age holding a list of any length; for the identifier and
\* for the query no file or a new one holding one record.
StoredLists == <<NoFile, File(<<>>), File(<<"a">>), File(<<"a", "b">>)>>

ClientCache(c, a, q) ==
    [k \in CacheKeys |->
        CASE k = <<"c1", 1>>        -> StoredLists[c]
          [] k = <<"article_a", 1>> -> StoredLists[a]
          [] k = <<"search_q", 1>>  -> StoredLists[q]
          [] OTHER                  -> NoFile]

InitFetch ==
    /\ \E c \in DOMAIN StoredLists, a, q \in {1, 3} : cache = ClientCache(c, a, q)
    /\ \E age \in Ages :
          cache_age = [k \in CacheKeys |->
                          IF k = <<"c1", 1>> /\ cache[k] # NoFile THEN age ELSE 0]
    /\ fetch = NoFetch
    /\ batches = <<>>
    /\ fetched_ids = {}
    /\ cfg = IdleConfig
    /\ rate_limiter = cfg.max_connections
    /\ download_semaphore = cfg.max_concurrent_downloads
    /\ logFile = <<>>
    /\ log0 = logFile
    /\ downloaded_ids = {}
    /\ download_results = <<>>
    /\ lock = {}
    /\ calls = <<>>
    /\ new_storage = NewStorage
    /\ session = NewSession
    /\ pc = "client"
    /\ catIdx = 1
    /\ downloaded_count = 0
    /\ articles_needed = 0
    /\ attempt = 0
    /\ tasks = <<>>
    /\ run = NewRun
    /\ cli = NewCli
    /\ article = NoArticle
    /\ clock = 1
    /\ finished = <<>>
    /\ disk = NoDisk

NextFetch ==
    \/ ClientStart
    \/ ClientLookup
    \/ ClientGate
    \/ ClientAnswer
    \/ ClientError

SpecFetch == InitFetch /\ [][NextFetch]_vars

\* ------------------------------------------------- the scrape command

\* Everything but the session, the clock and the command's own state.
cliFrame == <<logFile, downloaded_ids, download_results, lock, calls,
              new_storage, log0, cfg, pc, catIdx, downloaded_count,
              articles_needed, attempt, tasks, download_semaphore,
              rate_limiter, fetched_ids, cache, run, cache_age, fetch,
              batches, article, disk>>

\* The session as scrape_articles can leave it: nothing found, downloads
\* counted, or a category error recorded.
ScrapedSessions ==
    {NewSession,
     [NewSession EXCEPT !.articles_found = 1, !.articles_downloaded = 1],
     add_error(NewSession, "category", "c1")}

\* The steps of _scrape that await, where an interrupt can arrive.
Awaiting == {"scrape", "save", "export_metadata", "export_bibtex"}

\* Lines 243-244 and 236-238: control reaches a handler of the try block.
Raise(c, cause) == [c EXCEPT !.pc = "except", !.cause = cause]

\* The coroutine is left by an exception no handler of _scrape matches.
Abandon(c, cause, code) ==
    [c EXCEPT !.pc = "exited", !.cause = cause, !.exited = TRUE,
              !.exit_code = code]

\* Lines 174-180: the try block is entered, the scraper is created and the
\* download directory made, which can raise OSError.
CliEnter ==
    /\ cli.pc = "try"
    /\ \/ cli' = [cli EXCEPT !.pc = "scrape"]
       \/ cli' = Raise(cli, "exception")
    /\ UNCHANGED <<session, clock, finished, cliFrame>>

\* Lines 187-202: scrape_articles returns the articles and has updated the
\* session.
CliScrape ==
    /\ cli.pc = "scrape"
    /\ \E s \in ScrapedSessions, some \in BOOLEAN :
          /\ session' = s
          /\ cli' = [cli EXCEPT !.pc = "finish", !.returned = TRUE,
                                !.articles = some]
    /\ UNCHANGED <<clock, finished, cliFrame>>

\* One call of session.finish() at the current reading of the clock.
CallFinish ==
    /\ session' = finish(session, Now)
    /\ finished' = Append(finished, session'.end_time)
    /\ clock' = clock + 1

\* Line 205.
CliFinish ==
    /\ cli.pc = "finish"
    /\ CallFinish
    /\ cli' = [cli EXCEPT !.pc = "save", !.finish_calls = @ + 1]
    /\ UNCHANGED cliFrame

\* Line 208: save_session writes the session file, or raises what the write
\* raised (storage.py, lines 161-163).
CliSave ==
    /\ cli.pc = "save"
    /\ \/ cli' = [cli EXCEPT !.pc = "export_metadata",
                             !.saved = Append(@, session)]
       \/ cli' = Raise(cli, "exception")
    /\ UNCHANGED <<session, clock, finished, cliFrame>>

\* Lines 211-216: the JSON export, when asked for and there are articles.
CliExportMetadata ==
    /\ cli.pc = "export_metadata"
    /\ \/ cli' = [cli EXCEPT !.pc = "export_bibtex"]
       \/ /\ cli.export_metadata /\ cli.articles
          /\ cli' = Raise(cli, "exception")
    /\ UNCHANGED <<session, clock, finished, cliFrame>>

\* Lines 219-224: the BibTeX export.
CliExportBibtex ==
    /\ cli.pc = "export_bibtex"
    /\ \/ cli' = [cli EXCEPT !.pc = "display"]
       \/ /\ cli.export_bibtex /\ cli.articles
          /\ cli' = Raise(cli, "exception")
    /\ UNCHANGED <<session, clock, finished, cliFrame>>

\* Lines 227-234: the summary and the storage statistics are displayed unless
\* quiet, and _scrape returns: the process exits with status 0.
CliDisplay ==
    /\ cli.pc = "display"
    /\ \/ cli' = [cli EXCEPT !.pc = "exited", !.exited = TRUE, !.exit_code = 0]
       \/ /\ ~cli.quiet
          /\ cli' = Raise(cli, "exception")
    /\ UNCHANGED <<session, clock, finished, cliFrame>>

\* An interrupt arrives while _scrape awaits. Either KeyboardInterrupt is
\* raised in the coroutine's own frames and reaches line 236, or the runner
\* cancels the main task: CancelledError is neither a KeyboardInterrupt nor
\* an Exception, no handler runs, and the process exits with the status of
\* main() (130, line 565) or with the one click gives an aborted command (1).
CliInterrupt ==
    /\ cli.pc \in Awaiting
    /\ \/ cli' = Raise(cli, "interrupt")
       \/ \E code \in {1, 130} : cli' = Abandon(cli, "interrupt", code)
    /\ UNCHANGED <<session, clock, finished, cliFrame>>

\* Lines 237-239 and 244-245: the handler adds its error and calls finish().
CliHandle ==
    /\ cli.pc = "except"
    /\ LET s == add_error(session,
                    IF cli.cause = "interrupt" THEN "interrupted" ELSE "critical",
                    cli.cause)
       IN  /\ session' = finish(s, Now)
           /\ finished' = Append(finished, session'.end_time)
           /\ clock' = clock + 1
    /\ cli' = [cli EXCEPT !.pc = "handler_save", !.finish_calls = @ + 1,
                          !.handled = TRUE]
    /\ UNCHANGED cliFrame

\* Lines 240-241 and 246-250: the handler saves the session and exits; a
\* save_session that raises here leaves _scrape as an unexpected error of
\* main() (line 566-571), status 1.
CliHandlerSave ==
    /\ cli.pc = "handler_save"
    /\ \/ cli' = [cli EXCEPT !.pc = "exited", !.exited = TRUE,
                             !.saved = Append(@, session),
                             !.exit_code = IF cli.cause = "interrupt"
                                           THEN 130 ELSE 1]
       \/ cli' = [cli EXCEPT !.pc = "exited", !.exited = TRUE, !.exit_code = 1]
    /\ UNCHANGED <<session, clock, finished, cliFrame>>

InitCli ==
    /\ \E m, b, q \in BOOLEAN :
          cli = [NewCli EXCEPT !.pc = "try", !.export_metadata = m,
                               !.export_bibtex = b, !.quiet = q]
    /\ session = NewSession
    /\ clock = 1
    /\ finished = <<>>
    /\ disk = NoDisk
    /\ logFile = <<>>
    /\ log0 = logFile
    /\ downloaded_ids = {}
    /\ download_results = <<>>
    /\ lock = {}
    /\ calls = <<>>
    /\ new_storage = NewStorage
    /\ cfg = IdleConfig
    /\ pc = "cli"
    /\ catIdx = 1
    /\ downloaded_count = 0
    /\ articles_needed = 0
    /\ attempt = 0
    /\ tasks = <<>>
    /\ download_semaphore = cfg.max_concurrent_downloads
    /\ rate_limiter = cfg.max_connections
    /\ fetched_ids = {}
    /\ cache = [k \in CacheKeys |-> NoFile]
    /\ run = NewRun
    /\ cache_age = [k \in CacheKeys |-> 0]
    /\ fetch = NoFetch
    /\ batches = <<>>
    /\ article = NoArticle

NextCli ==
    \/ CliEnter
    \/ CliScrape
    \/ CliFinish
    \/ CliSave
    \/ CliExportMetadata
    \/ CliExportBibtex
    \/ CliDisplay
    \/ CliInterrupt
    \/ CliHandle
    \/ CliHandlerSave

SpecCli == InitCli /\ [][NextCli]_vars

\* ------------------------------------------------------ the model classes

\* Longest identifier string handed to the ArxivArticle constructor.
MaxIdLen == 4

\* The characters of an identifier string: the separator of a URL, the
\* letter of a version suffix, a digit, another letter, a blank.
Chars == {"/", "v", "1", "x", " "}

\* str.split('/')[-1]: what follows the last '/'.
RECURSIVE SplitLast(_)
SplitLast(v) ==
    IF v = <<>> THEN <<>>
    ELSE IF v[Len(v)] = "/" THEN <<>>
    ELSE SplitLast(SubSeq(v, 1, Len(v) - 1)) \o <<v[Len(v)]>>

\* str.rindex('v') counted from 1, and 0 where Python raises ValueError.
rindex(v, c) ==
    IF c \in Range(v) THEN CHOOSE i \in DOMAIN v :
                              v[i] = c /\ \A j \in DOMAIN v : v[j] = c => j <= i
    ELSE 0

\* str.isdigit(): at least one character and every character a digit.
isdigit(w) == w # <<>> /\ \A i \in DOMAIN w : w[i] = "1"

\* str.strip().
RECURSIVE strip(_)
strip(v) ==
    IF v = <<>> THEN <<>>
    ELSE IF v[1] = " " THEN strip(Tail(v))
    ELSE IF v[Len(v)] = " " THEN strip(SubSeq(v, 1, Len(v) - 1))
    ELSE v

\* ArxivArticle.validate_arxiv_id, lines 122-142: ok is FALSE where the
\* validator raises ValueError.
validate_arxiv_id(v) ==
    IF v = <<>> THEN [ok |-> FALSE, id |-> <<>>]
    ELSE LET u == IF "/" \in Range(v) THEN SplitLast(v) ELSE v
             i == rindex(u, "v")
             w == IF i > 1 /\ isdigit(SubSeq(u, i + 1, Len(u)))
                  THEN SubSeq(u, 1, i - 1) ELSE u
         IN  [ok |-> TRUE, id |-> strip(w)]

\* Everything but the article.
articleFrame == <<logFile, downloaded_ids, download_results, lock, calls,
                  new_storage, log0, session, cfg, pc, catIdx,
                  downloaded_count, articles_needed, attempt, tasks,
                  download_semaphore, rate_limiter, fetched_ids, cache, run,
                  cache_age, fetch, batches, cli, clock, finished, disk>>

\* ArxivArticle(arxiv_id=input, ...).
Construct ==
    /\ ~article.built
    /\ LET got == validate_arxiv_id(article.input) IN
       article' = [article EXCEPT !.built = TRUE, !.accepted = got.ok,
                                  !.arxiv_id = got.id]
    /\ UNCHANGED articleFrame

\* ArxivArticle(arxiv_id=article.arxiv_id, ...): the stored identifier is
\* handed to the constructor again.
Reconstruct ==
    /\ article.built /\ article.accepted /\ ~article.rebuilt
    /\ LET got == validate_arxiv_id(article.arxiv_id) IN
       article' = [article EXCEPT !.rebuilt = TRUE, !.again_accepted = got.ok,
                                  !.again_id = got.id]
    /\ UNCHANGED articleFrame

\* The state of everything the model classes do not touch.
IdleRun ==
    /\ logFile = <<>>
    /\ log0 = logFile
    /\ downloaded_ids = {}
    /\ download_results = <<>>
    /\ lock = {}
    /\ calls = <<>>
    /\ new_storage = NewStorage
    /\ cfg = IdleConfig
    /\ pc = "models"
    /\ catIdx = 1
    /\ downloaded_count = 0
    /\ articles_needed = 0
    /\ attempt = 0
    /\ tasks = <<>>
    /\ download_semaphore = cfg.max_concurrent_downloads
    /\ rate_limiter = cfg.max_connections
    /\ fetched_ids = {}
    /\ cache = [k \in CacheKeys |-> NoFile]
    /\ run = NewRun
    /\ cache_age = [k \in CacheKeys |-> 0]
    /\ fetch = NoFetch
    /\ batches = <<>>
    /\ cli = NewCli

InitArticle ==
    /\ \E v \in SeqsUpTo(Chars, MaxIdLen) : article = [NoArticle EXCEPT !.input = v]
    /\ session = NewSession
    /\ clock = 1
    /\ finished = <<>>
    /\ disk = NoDisk
    /\ IdleRun

NextArticle ==
    \/ Construct
    \/ Reconstruct

SpecArticle == InitArticle /\ [][NextArticle]_vars

\* Everything but the session, the clock and the record of finish() calls.
sessionFrame == <<logFile, downloaded_ids, download_results, lock, calls,
                  new_storage, log0, cfg, pc, catIdx, downloaded_count,
                  articles_needed, attempt, tasks, download_semaphore,
                  rate_limiter, fetched_ids, cache, run, cache_age, fetch,
                  batches, cli, article, disk>>

\* Most errors and most articles a session gets.
MaxErrors == 2

\* session.finish(), lines 348-351.
SessionFinish ==
    /\ clock < MaxClock
    /\ CallFinish
    /\ UNCHANGED sessionFrame

\* session.add_error(...), lines 344-346.
SessionAddError ==
    /\ Len(session.errors) < MaxErrors
    /\ session' = add_error(session, "test", "x")
    /\ UNCHANGED <<clock, finished, sessionFrame>>

\* The counters are assigned, as by scrape_articles, lines 378 and 445.
SessionCount ==
    /\ session.articles_found < MaxErrors
    /\ \E d \in 0..1 :
          session' = [session EXCEPT !.articles_found = @ + 1,
                                     !.articles_downloaded = @ + d]
    /\ UNCHANGED <<clock, finished, sessionFrame>>

\* Time passes.
Tick ==
    /\ clock < MaxClock
    /\ clock' = clock + 1
    /\ UNCHANGED <<session, finished, sessionFrame>>

InitSession ==
    /\ session = NewSession
    /\ clock = 1
    /\ finished = <<>>
    /\ disk = NoDisk
    /\ article = NoArticle
    /\ IdleRun

NextSession ==
    \/ SessionFinish
    \/ SessionAddError
    \/ SessionCount
    \/ Tick

SpecSession == InitSession /\ [][NextSession]_vars

\* ------------------------------------------------------------ properties

\* The identifiers a fresh StorageManager loads from the log on disk.
IdsOnDisk == Replay(logFile, {}, <<>>).ids

CategoryErrors(c) ==
    {n \in DOMAIN session.errors :
        session.errors[n].kind = "category" /\ session.errors[n].about = c}

\* C1: after a scrape run the ledger holds, besides what it held before the
\* run, exactly the identifiers downloaded in the run, in the in-memory set
\* and in the log on disk.
C1_LedgerAfterRun ==
    pc = "done" =>
        /\ downloaded_ids = run.ledger0 \cup run.succeeded
        /\ IdsOnDisk = run.ledger0 \cup run.succeeded

\* C2: the number of download_article calls in progress never exceeds
\* config.download.max_concurrent_downloads.
C2_ConcurrencyCap == Cardinality(InFlight) <= cfg.max_concurrent_downloads

\* C2 witness: the cap is reached while a scheduled task still waits.
C2_Witness ==
    /\ Cardinality(InFlight) = cfg.max_concurrent_downloads
    /\ \E i \in DOMAIN tasks : tasks[i].pc = "start"

\* C3 as stated: per fetched category the records attempted are
\* min(returned, still needed), still needed is the target minus the successes
\* so far, and the downloads scheduled never exceed still needed.
C3_ScheduledWithinNeeded ==
    \A n \in DOMAIN run.cats :
        LET r == run.cats[n] IN
        r.ok => /\ r.needed = cfg.max_articles - r.before
                /\ r.scheduled + r.skipped
                      = Min(r.returned, r.needed) * Len(cfg.formats)
                /\ r.scheduled <= r.needed

\* C3 amended: the downloads scheduled never exceed still needed times the
\* number of requested formats.
C3_ScheduledWithinNeededPerFormat ==
    \A n \in DOMAIN run.cats :
        LET r == run.cats[n] IN
        r.ok => /\ r.needed = cfg.max_articles - r.before
                /\ r.scheduled + r.skipped
                      = Min(r.returned, r.needed) * Len(cfg.formats)
                /\ r.scheduled <= r.needed * Len(cfg.formats)

\* C3 witness: a category returned more records than were still needed and
\* downloads were scheduled for it.
C3_Witness ==
    \E n \in DOMAIN run.cats :
        /\ run.cats[n].ok
        /\ run.cats[n].returned > run.cats[n].needed
        /\ run.cats[n].scheduled > 0

\* C4: at the end of a run session.articles_downloaded is at most the target
\* count.
C4_DownloadedWithinTarget ==
    pc = "done" => session.articles_downloaded <= cfg.max_articles

ErrorsAbout(id) ==
    {n \in DOMAIN session.errors : session.errors[n].about = id}

Failed == {i \in DOMAIN tasks :
              tasks[i].outcome \in {"failed", "nolink", "unsupported"}}

\* C5: download_article for a known identifier returns the "already
\* downloaded" outcome without the rate limiter, the network or the file, and
\* the wrapper counts no error and no skip for it.
C5_KnownIsSkippedWithoutError ==
    /\ \A i \in DOMAIN tasks :
          tasks[i].id \in downloaded_ids =>
              /\ tasks[i].pc \in {"start", "done"}
              /\ tasks[i].pc = "done" => tasks[i].outcome = "already"
    /\ \A id \in downloaded_ids : ErrorsAbout(id) = {}
    /\ Len(session.errors) = Cardinality(Failed)
    /\ session.articles_skipped = Cardinality(Failed)

\* C5 witness: one call was skipped as already downloaded and another failed
\* and was counted.
C5_Witness ==
    /\ \E i \in DOMAIN tasks : tasks[i].outcome = "already"
    /\ \E i \in DOMAIN tasks : tasks[i].outcome = "failed"
    /\ \A i \in DOMAIN tasks : tasks[i].pc = "done"

Saved == {p \in DOMAIN calls : calls[p].op = "save" /\ calls[p].returned = "ok"}

SavedIds == {calls[p].result.arxiv_id : p \in Saved}

\* The counts tallied directly from the outcomes that were saved.
Tally ==
    [successful_downloads |-> Cardinality({p \in Saved : calls[p].result.success}),
     failed_downloads     |-> Cardinality({p \in Saved : ~calls[p].result.success})]

Counts(ids, results) ==
    [successful_downloads |-> get_stats(ids, results).successful_downloads,
     failed_downloads     |-> get_stats(ids, results).failed_downloads]

\* A load of the same instance that read the log as it is now, that is, after
\* every save had written its line.
LoadedAfterSaves ==
    \E p \in DOMAIN calls :
        /\ calls[p].op = "load" /\ calls[p].pc = "done"
        /\ calls[p].read = logFile

\* C6: outcomes appended to an empty log and loaded from disk, into a new
\* StorageManager or into the one that saved them, give the set of their
\* identifiers, and get_stats gives the counts tallied from the outcomes.
C6_RoundTrip ==
    (log0 = <<>> /\ AllReturned /\ Saved # {}) =>
        /\ new_storage.loaded =>
              /\ new_storage.downloaded_ids = SavedIds
              /\ Counts(new_storage.downloaded_ids,
                        new_storage.download_results) = Tally
        /\ LoadedAfterSaves =>
              /\ downloaded_ids = SavedIds
              /\ Counts(downloaded_ids, download_results) = Tally

\* The identifier the line stands for: its identifier field, or the line.
IdOf(line) == IF "arxiv_id" \in line.keys THEN line.data.arxiv_id ELSE line.raw

\* C7: load_downloaded_ids reads every line: each line that is not empty adds
\* its identifier, and no line keeps the lines after it from being loaded.
C7_EveryLineLoaded ==
    new_storage.loaded =>
        new_storage.downloaded_ids =
            {IdOf(logFile[n]) : n \in {m \in DOMAIN logFile : logFile[m].json # "blank"}}

InAppend == {p \in DOMAIN calls : calls[p].pc \in {"open", "write", "close"}}

Appended == SubSeq(logFile, Len(log0) + 1, Len(logFile))

\* C8: at most one save_download_result is inside the append section; once
\* all calls are over the log holds the lines it held and one whole line per
\* call that returned, and the set and the list hold every saved outcome.
C8_AppendsSerialized ==
    /\ Cardinality(InAppend) <= 1
    /\ AllReturned =>
          /\ Len(logFile) = Len(log0) + Cardinality(Saved)
          /\ SubSeq(logFile, 1, Len(log0)) = log0
          /\ \A r \in Outcomes :
                Cardinality({n \in DOMAIN Appended : Appended[n] = ModelDump(r)})
                    = Cardinality({p \in Saved : calls[p].result = r})
          /\ \A p \in Saved :
                /\ calls[p].result.arxiv_id \in downloaded_ids
                /\ calls[p].result \in Range(download_results)

\* C8 witness: two saves have returned, one of them after it had to wait for
\* the lock and try again.
C8_Witness ==
    /\ AllReturned
    /\ Cardinality(Saved) = NumCallers
    /\ \E p \in Saved : calls[p].tries > 1

\* C9: download_article never raises; every failure is a returned outcome.
C9_NeverRaises == \A i \in DOMAIN tasks : tasks[i].outcome # "raised"

\* C10: a category whose fetch fails gets one session error naming it and no
\* download, and the loop goes on: a run ends only with the target reached or
\* every category fetched.
C10_FetchFailureIsLocal ==
    /\ \A n \in DOMAIN run.cats :
          ~run.cats[n].ok =>
              /\ run.cats[n].scheduled = 0
              /\ Cardinality(CategoryErrors(run.cats[n].category)) = 1
    /\ pc \in {"return", "done"} =>
          \/ TargetReached(downloaded_count)
          \/ Len(run.cats) = Len(cfg.categories)

\* C10 witness: the first category failed and the second was fetched and had
\* downloads scheduled.
C10_Witness ==
    /\ pc = "done"
    /\ Len(run.cats) = 2
    /\ ~run.cats[1].ok
    /\ run.cats[2].ok /\ run.cats[2].scheduled > 0

\* The session file as the last save_session left it.
Persisted == cli.saved[Len(cli.saved)]

ErrorKinds(s) == {s.errors[n].kind : n \in DOMAIN s.errors}

\* C11: a run of the scrape command in which scrape_articles returned and
\* that no interrupt ended has called finish() once and saved the session
\* once when the process exits, also when an export or the display failed
\* after the first save.
C11_FinishAndPersistOnce ==
    (cli.exited /\ cli.returned /\ cli.cause # "interrupt") =>
        /\ cli.finish_calls = 1
        /\ Len(cli.saved) = 1

\* C12: when the command ends by an interrupt or by an exception, at exit the
\* session holds an error for the cause, has its end time, and was saved in
\* that state; the status is not 0 and the one of an interrupt is not the one
\* of the other failures.
C12_AbnormalEndIsRecorded ==
    (cli.exited /\ cli.cause # None) =>
        /\ (IF cli.cause = "interrupt" THEN "interrupted" ELSE "critical")
               \in ErrorKinds(session)
        /\ session.end_time # None
        /\ cli.saved # <<>> /\ Persisted = session
        /\ cli.exit_code # 0
        /\ cli.cause = "interrupt" => cli.exit_code # 1

CategoryBatches == {n \in DOMAIN batches : batches[n].op = "category"}

C14_CacheServesFreshEntries ==
    \A n \in CategoryBatches :
        LET b == batches[n] IN
        b.stored # NoFile =>
            IF b.age > ttl_days
            THEN b.requests >= 1
            ELSE /\ b.ids = Stored(b.stored)
                 /\ b.requests = 0
                 /\ ~b.acquired

Returned == {n \in CategoryBatches : batches[n].status = "returned"}

\* C15: no identifier is returned by two calls of
\* fetch_articles_from_category on one scraper, nor twice by one call,
\* whether the batch comes from the network or from the cache.
C15_NoIdentifierTwice ==
    /\ \A n \in Returned :
          Cardinality(Range(batches[n].ids)) = Len(batches[n].ids)
    /\ \A n, m \in Returned :
          n # m => Range(batches[n].ids) \cap Range(batches[m].ids) = {}

\* C18: fetch_article_by_id and search_articles report a failure to their
\* caller only after the ceiling of requests.
C18_VariantsRetry ==
    \A n \in DOMAIN batches :
        (batches[n].op \in {"by_id", "search"} /\ batches[n].source = "failure")
            => batches[n].requests = FetchAttempts

\* The identifier ends in the letter of a version followed by digits.
EndsInVersion(id) ==
    \E i \in DOMAIN id : id[i] = "v" /\ isdigit(SubSeq(id, i + 1, Len(id)))

\* C16: the identifier an ArxivArticle stores is not empty, holds no '/' and
\* ends in no version suffix, and the constructor leaves a stored identifier
\* as it is.
C16_IdentifierNormalized ==
    /\ (article.built /\ article.accepted) =>
          /\ article.arxiv_id # <<>>
          /\ "/" \notin Range(article.arxiv_id)
          /\ ~EndsInVersion(article.arxiv_id)
    /\ article.rebuilt =>
          /\ article.again_accepted
          /\ article.again_id = article.arxiv_id

\* C17: every finish() call leaves end_time at the reading of the first
\* call, whatever was done to the session in between; duration is None
\* before the first call and a number after it.
C17_FinishIdempotent ==
    /\ \A n \in DOMAIN finished : finished[n] = finished[1]
    /\ finished # <<>> =>
          /\ session.end_time = finished[1]
          /\ duration(session) # <<>>
    /\ finished = <<>> =>
          /\ session.end_time = None
          /\ duration(session) = <<>>

\* C17 witness: finish() was called twice at different readings of the clock
\* on a session that also got an error and a count.
C17_Witness ==
    /\ Len(finished) >= 2
    /\ TimeIndex(session.end_time) + 2 <= clock
    /\ session.errors # <<>>
    /\ session.articles_found > 0

Unresolved == {i \in DOMAIN tasks : tasks[i].pc # "done"}

\* C19: categories do not overlap: while a category is being fetched no
\* download is unresolved, the downloads under way are those scheduled for
\* the category of the loop, and the loop leaves the gather only when every
\* one of them has resolved.
C19_NoCategoryOverlap ==
    /\ [](pc # "gather" => Unresolved = {})
    /\ [](pc = "gather" =>
              /\ run.cats[Len(run.cats)].idx = catIdx
              /\ run.cats[Len(run.cats)].scheduled = Len(tasks))
    /\ [][(pc = "gather" /\ pc' # "gather") => Unresolved = {}]_vars

\* C19 witness: in one category the second download has resolved while the
\* first one is still under way.
C19_Witness ==
    /\ pc = "gather"
    /\ Len(tasks) >= 2
    /\ tasks[1].pc \in {"sleep", "stream", "hash"}
    /\ tasks[2].pc = "done"

\* C20: a category is fetched, and its downloads scheduled, only while the
\* successful downloads are fewer than the target; the loop ends only when
\* the target is reached or no category is left.
C20_StopsAtTarget ==
    /\ \A n \in DOMAIN run.cats : run.cats[n].before < cfg.max_articles
    /\ pc \in {"fetch", "fetch_rl", "fetch_sleep", "fetch_get", "gather"} =>
          /\ downloaded_count < cfg.max_articles
          /\ catIdx <= Len(cfg.categories)
    /\ pc \in {"return", "done"} =>
          \/ run.successes >= cfg.max_articles
          \/ Len(run.cats) = Len(cfg.categories)

\* C20 witness: the run has finished on the target with a category left.
C20_Witness ==
    /\ pc = "done"
    /\ run.successes >= cfg.max_articles
    /\ Len(run.cats) < Len(cfg.categories)

\* C21: under fair scheduling every run over a finite category list ends:
\* every scheduled download resolves, the run reaches its end also when the
\* target is not reached, leaving the loop records no error, and once
\* scrape_articles has returned every slot of both gates is free.
C21_RunTerminates ==
    /\ <>(pc = "done")
    /\ (pc = "gather") ~> (pc = "gather" /\ Unresolved = {})
    /\ [][(pc = "loop" /\ pc' = "return") => session'.errors = session.errors]_vars
    /\ [](pc \in {"return", "done"} =>
              /\ download_semaphore = cfg.max_concurrent_downloads
              /\ rate_limiter = cfg.max_connections)

\* C21 witness: the run has ended below its target, after downloads that had
\* to wait for both gates.
C21_Witness ==
    /\ pc = "done"
    /\ run.successes < cfg.max_articles
    /\ Len(run.cats) = Len(cfg.categories)
    /\ \E n \in DOMAIN run.cats :
          run.cats[n].scheduled > cfg.max_concurrent_downloads

\* The HTTP requests in flight: the downloads between session.get and the end
\* of the body, and the feed request of the loop.
RequestsInFlight ==
    Cardinality({i \in DOMAIN tasks : tasks[i].pc = "stream"})
        + (IF pc = "fetch_get" THEN 1 ELSE 0)

\* The slots of the rate limiter that are held: by the downloads inside the
\* block of line 249 and by the fetch inside the block of line 76.
SlotsHeld ==
    Cardinality({i \in DOMAIN tasks : tasks[i].pc \in {"sleep", "stream"}})
        + (IF pc \in {"fetch_sleep", "fetch_get"} THEN 1 ELSE 0)

\* C22: every HTTP request, of a feed or of a download, is sent by a task that
\* holds a slot of the rate limiter and has slept in it; the slots held are
\* those missing from the rate limiter, which never goes below zero, so the
\* requests in flight never exceed config.api.max_connections.
C22_RequestsRateLimited ==
    /\ [](rate_limiter >= 0)
    /\ [](rate_limiter = cfg.max_connections - SlotsHeld)
    /\ [](RequestsInFlight <= cfg.max_connections)
    /\ [][pc' = "fetch_get" => pc \in {"fetch_sleep", "fetch_get"}]_vars
    /\ [][\A i \in DOMAIN tasks \cap DOMAIN tasks' :
              tasks'[i].pc = "stream" => tasks[i].pc \in {"sleep", "stream"}]_vars

\* C22 witness: as many requests are in flight as the rate limiter has
\* slots, and a download waits for one.
C22_Witness ==
    /\ RequestsInFlight = cfg.max_connections
    /\ \E i \in DOMAIN tasks : tasks[i].pc = "rl"

\* The records within the cut-off of a processed category whose identifier
\* was known when the category was processed.
KnownInCut(r) == {k \in DOMAIN r.cut : r.cut[k] \in r.known}

\* C23: for each record within the still-needed cut-off whose identifier is
\* known when its category is processed articles_skipped goes up by exactly
\* one and no download is scheduled, and for each record that is not known a
\* download is scheduled.
C23_KnownSkippedOnce ==
    \A n \in DOMAIN run.cats :
        LET r == run.cats[n] IN
        r.ok => /\ r.skipped = Cardinality(KnownInCut(r))
                /\ r.scheduled >= Len(r.cut) - Cardinality(KnownInCut(r))
                /\ (KnownInCut(r) = DOMAIN r.cut => r.scheduled = 0)

\* The line carries an identifier: a record with an identifier field, or a
\* line of the older format, which is the identifier itself.
Carries(line) == line.json = "invalid" \/ "arxiv_id" \in line.keys

\* The lines of a log that carry identifier `id`, as load_downloaded_ids
\* reads them.
LinesOf(log, id) ==
    {n \in DOMAIN log : Carries(log[n]) /\ IdOf(log[n]) = id}

FirstOf(log, id) ==
    CHOOSE n \in LinesOf(log, id) : \A m \in LinesOf(log, id) : n <= m

\* C24: deduplicate_database on an existing log writes a backup equal to the
\* log it found, and leaves a log in which every identifier that was present
\* is present exactly once, on the line of its first occurrence and in the
\* original order; a second run leaves the log as the first one left it.
C24_DedupKeepsFirstOccurrences ==
    \A p \in DOMAIN calls :
        (Savers = {} /\ calls[p].op = "dedup" /\ calls[p].pc = "done"
            /\ calls[p].existed) =>
        LET before == calls[p].before
            after  == calls[p].after
            ids    == {IdOf(before[n]) :
                          n \in {m \in DOMAIN before : Carries(before[m])}}
        IN  /\ calls[p].copy = File(before)
            /\ \A id \in ids :
                  /\ Cardinality(LinesOf(after, id)) = 1
                  /\ after[FirstOf(after, id)] = before[FirstOf(before, id)]
            /\ \A i, j \in ids :
                  FirstOf(before, i) < FirstOf(before, j)
                      => FirstOf(after, i) < FirstOf(after, j)
            /\ (p = 2 => after = before)

\* C25: restore_from_backup on its own, whatever the log was and also when
\* there was none: when the backup file exists the log ends with exactly the
\* backup's content, and the set and the list are those a fresh load of that
\* content gives; when it does not exist the log, the set and the list are
\* left as they were.
C25_RestoreInstallsBackup ==
    (Len(calls) = 1 /\ calls[1].op = "restore" /\ calls[1].pc = "done") =>
        IF disk.given # NoFile
        THEN /\ logFile = Stored(disk.given)
             /\ downloaded_ids = Replay(Stored(disk.given), {}, <<>>).ids
             /\ download_results = Replay(Stored(disk.given), {}, <<>>).results
        ELSE /\ logFile = log0
             /\ downloaded_ids = Replay(log0, {}, <<>>).ids
             /\ download_results = Replay(log0, {}, <<>>).results

\* ScrapingSession.success_rate, models.py lines 332-337, as a whole number
\* of percent.
success_rate(s) ==
    IF s.articles_found = 0 THEN 0
    ELSE (s.articles_downloaded * 100) \div s.articles_found

\* C26: in every state of a scrape run articles_downloaded is at most
\* articles_found, so success_rate lies between 0 and 100; none of the three
\* counters ever decreases and the error list only grows.
C26_CountersBounded ==
    /\ [](session.articles_downloaded <= session.articles_found)
    /\ [](success_rate(session) >= 0 /\ success_rate(session) <= 100)
    /\ [][/\ session'.articles_found >= session.articles_found
          /\ session'.articles_downloaded >= session.articles_downloaded
          /\ session'.articles_skipped >= session.articles_skipped
          /\ Len(session'.errors) >= Len(session.errors)
          /\ SubSeq(session'.errors, 1, Len(session.errors)) = session.errors]_vars

\* C27: once every save_download_result has returned or given up, the list in
\* memory holds one entry per line appended to the log and none for an append
\* that did not succeed, and an identifier is in the known set only if a line
\* of the log carries it.
C27_MemoryFollowsLog ==
    (AllReturned /\ \A p \in DOMAIN calls : calls[p].op = "save") =>
        /\ Len(download_results) = Len(Appended)
        /\ \A n \in DOMAIN download_results :
              ModelDump(download_results[n]) = Appended[n]
        /\ downloaded_ids \subseteq
              {IdOf(logFile[n]) : n \in {m \in DOMAIN logFile : Carries(logFile[m])}}

\* C28: an outcome that save_download_result recorded while
\* deduplicate_database or restore_from_backup ran on the same StorageManager
\* is not lost: once both have returned its line is in the log and its
\* identifier in the set, or, beside a restore, the log is the backup.
C28_SaveSurvivesMaintenance ==
    \A p \in Savers :
        (AllReturned /\ calls[p].returned = "ok" /\ calls[1].op \in MaintOps) =>
            \/ /\ \E n \in DOMAIN logFile : logFile[n] = ModelDump(calls[p].result)
               /\ calls[p].result.arxiv_id \in downloaded_ids
            \/ /\ calls[1].op = "restore"
               /\ disk.given # NoFile
               /\ logFile = Stored(disk.given)

\* FileFormat.get_extension, models.py lines 24-32.
get_extension(format) ==
    CASE format = "source" -> ".tar.gz"
      [] format = "pdf"    -> ".pdf"
      [] format = "latex"  -> ".tex"
      [] format = "html"   -> ".html"
      [] OTHER             -> ".unknown"

\* ArxivArticle.get_download_filename, models.py lines 160-163: the
\* identifier followed by the extension, kept as the two parts of the name.
get_download_filename(id, format) == <<id, get_extension(format)>>

\* The (identifier, format) pairs for which a processed category scheduled a
\* download: the records of its cut-off that were not known, in every format.
ScheduledPairs(r) ==
    {<<r.cut[k], cfg.formats[j]>> :
        k \in {m \in DOMAIN r.cut : r.cut[m] \notin r.known},
        j \in DOMAIN cfg.formats}

\* C29: within one run each (identifier, format) pair is the subject of at
\* most one download, in one category and across the categories, and
\* distinct pairs have distinct file names, so no two downloads under way
\* write the same path.
C29_OneDownloadPerFile ==
    /\ \A n \in DOMAIN run.cats :
          run.cats[n].scheduled = Cardinality(ScheduledPairs(run.cats[n]))
    /\ \A m, n \in DOMAIN run.cats :
          m < n => ScheduledPairs(run.cats[m]) \cap ScheduledPairs(run.cats[n]) = {}
    /\ \A i, j \in DOMAIN tasks :
          i # j => get_download_filename(tasks[i].id, tasks[i].format)
                      # get_download_filename(tasks[j].id, tasks[j].format)

RECURSIVE CutTotal(_)
CutTotal(cats) ==
    IF cats = <<>> THEN 0 ELSE Len(Head(cats).cut) + CutTotal(Tail(cats))

RECURSIVE ScheduledTotal(_)
ScheduledTotal(cats) ==
    IF cats = <<>> THEN 0 ELSE Head(cats).scheduled + ScheduledTotal(Tail(cats))

ErrorsOfKind(kinds) ==
    Cardinality({n \in DOMAIN session.errors : session.errors[n].kind \in kinds})

\* C30: when a run has finished, every record within the cut-off of a fetched
\* category is counted once, in articles_downloaded or in articles_skipped;
\* the error list holds one entry per download that did not succeed, failed
\* or raised, one per category whose fetch failed, and nothing else.
C30_AccountingExact ==
    pc = "done" =>
        /\ session.articles_downloaded + session.articles_skipped
              = CutTotal(run.cats)
        /\ ErrorsOfKind({"download", "exception"})
              = ScheduledTotal(run.cats) - run.successes
        /\ ErrorsOfKind({"category"})
              = Cardinality({n \in DOMAIN run.cats : ~run.cats[n].ok})
        /\ Len(session.errors)
              = ErrorsOfKind({"download", "exception", "category"})

====
